---- MODULE Spec2Model ----
(***************************************************************************)
(* A model of mctokio: the framing / encryption / compression bridge       *)
(* between a byte transport and Minecraft 1.15.2 packets.                  *)
(*                                                                         *)
(*   src/src/cfb8.rs    MinecraftCipher (AES-128 CFB8, byte-wise)          *)
(*   src/src/util.rs    get_sized_buf, init_buf                            *)
(*   src/src/reader.rs  ReadBridge                                         *)
(*   src/src/writer.rs  WriteBridge                                        *)
(*                                                                         *)
(* Five specifications share the module:                                   *)
(*   SpecCipher  the cipher alone, driven slice by slice over inputs       *)
(*               drawn in its initial states;                              *)
(*   Spec        one WriteBridge, one transport, one ReadBridge;           *)
(*   SpecRaw     one ReadBridge fed by a foreign peer, byte by byte;       *)
(*   SpecBridge  the calls of the Bridge trait on both halves, and on the  *)
(*               TcpConnection that owns them;                             *)
(*   SpecBuf     get_sized_buf on one Vec<u8>, call after call.            *)
(***************************************************************************)
EXTENDS Integers, Sequences, FiniteSets, TLC

VARIABLES
    \* SpecCipher: the inputs, the encrypting cipher and the ciphertext it has
    \* produced, the decrypting cipher and the plaintext it has recovered
    lab_key, lab_iv, lab_plain, lab_enc, lab_ct, lab_dec, lab_pt,
    \* SpecCipher: how many calls each cipher has served, and whether one of
    \* them was handed an empty slice
    lab_calls,
    \* SpecBuf: a Vec<u8> with its bytes, and the last call of get_sized_buf
    \* on it: the Vec before, the size asked for and the slice returned
    buf_vec, buf_call,
    \* SpecBridge: the last call of TcpConnection::enable_encryption: its
    \* arguments, what it returned, and whether it was the first, third, ..
    \* call
    conn_call,
    \* Spec, SpecRaw: the two bridges
    writer,      \* the WriteBridge: its fields
    reader,      \* the ReadBridge: its fields
    wire,        \* the bytes written to the transport and not yet read
    closed,      \* the sending side of the transport is shut
    w_res,       \* what the writer's last call returned ("panic", "hang": it did not)
    w_calls,     \* how many times write_packet / write_raw_packet were called
    w_arg,       \* the writer's last call that returns a Result, with its arguments
                 \* and the settings it met
    w_frame,     \* the slice that call handed to write_all, before encryption
    w_keyiv,     \* the (key, iv) the writer's cipher was made from
    w_clear,     \* the slices emitted since then, before encryption
    w_sent,      \* the bytes handed to write_all since then
    raw_sent,    \* SpecRaw: how many bytes the foreign peer has sent
    r_pc,        \* where read_packet is: "varint" (read_one_varint) or "body" (read_exact)
    r_vbuf,      \* read_one_varint: buf[..len]
    r_need,      \* read_packet: packet_len
    r_res,       \* what the reader's last call returned
    r_pkt,       \* the packet of the last Ok(Some(..))
    r_keyiv,     \* the (key, iv) the reader's cipher was made from
    r_got,       \* the bytes the transport handed to the reader since then
    inflight,    \* the packets written whose frames the reader has not finished
    r_expect,    \* the written packet whose frame the reader finished last, and
                 \* the state the reader was in
    r_eof        \* read_one_varint's len when stream.read returned 0 bytes

(***************************************************************************)
(* Bounds of the model.                                                    *)
(***************************************************************************)
\* longest plaintext handed to the cipher in SpecCipher
MaxPlain == 3
\* most calls served by one cipher in SpecCipher
MaxSlices == 3
\* most calls of write_packet / write_raw_packet; the writer's host sets
\* state, threshold and encryption only before one of them
MaxWrites == 2
\* most bytes sent by the foreign peer of SpecRaw
MaxRaw == 6
\* length of the long, compressible packet body
LongBody == 130
\* SpecBuf: longest Vec at the start, most calls of get_sized_buf, and the
\* largest size asked for
MaxVec == 3
MaxSized == 2
MaxNeeded == 9
\* length of a packet body that gives the compress buffer a length of its
\* own above the 15 bytes of slack, with less room than its deflate stream
\* takes
MidBody == 15

(***************************************************************************)
(* Bytes.                                                                  *)
(***************************************************************************)
Byte == 0..255

Bit(x, i) == (x \div (2 ^ i)) % 2

\* u8 ^ u8
Xor8(a, b) ==
    LET d(i) == IF Bit(a, i) = Bit(b, i) THEN 0 ELSE 2 ^ i
    IN  d(0) + d(1) + d(2) + d(3) + d(4) + d(5) + d(6) + d(7)

\* n copies of byte b
Rep(n, b) == [i \in 1..n |-> b]

Take(s, n) == SubSeq(s, 1, n)
Drop(s, n) == SubSeq(s, n + 1, Len(s))

(***************************************************************************)
(* cfb8.rs: MinecraftCipher.                                               *)
(***************************************************************************)
BYTES_SIZE == 16

\* aes::Aes128::encrypt_block is code of the aes crate.  CFB8 uses it only as
\* a keyed function from blocks to blocks; here it is a fixed mixing function
\* of the key and of every byte of the block.
AesEncryptBlock(key, block) ==
    LET m(i) == i * (block[i] + 3 * key[i])
        mix  == m(1) + m(2) + m(3) + m(4) + m(5) + m(6) + m(7) + m(8)
                + m(9) + m(10) + m(11) + m(12) + m(13) + m(14) + m(15) + m(16)
    IN  [i \in 1..BYTES_SIZE |-> (mix * 7 + block[i] * 5 + key[i] + 11 * i + 99) % 256]

\* a variation of MinecraftCipher::new: the length of the key is not looked at
MinecraftCipher_newBug(key, iv) ==
    IF Len(iv) # BYTES_SIZE THEN [ok |-> FALSE, err |-> "iv needs to be 16 bytes"]
    ELSE [ok |-> TRUE,
          cipher |-> [key |-> key, iv |-> iv, tmp |-> Rep(BYTES_SIZE, 0)]]

\* MinecraftCipher::new: Err unless both slices are 16 bytes long
MinecraftCipher_new(key, iv) ==
    IF Len(iv) # BYTES_SIZE THEN [ok |-> FALSE, err |-> "iv needs to be 16 bytes"]
    ELSE IF Len(key) # BYTES_SIZE THEN [ok |-> FALSE, err |-> "key needs to be 16 bytes"]
    ELSE [ok |-> TRUE,
          cipher |-> [key |-> key, iv |-> iv, tmp |-> Rep(BYTES_SIZE, 0)]]

\* the iv register after one byte: tmp[1..16] moved to iv[0..15], with the
\* byte fed back stored in tmp[16] before
ShiftIv(tmp, fed) == Append(Tail(tmp), fed)

\* a variation of FedByte: the byte after the xor is fed back on decrypt too
FedByteBug(orig, updated, decrypt) == updated

\* which byte is fed back into the register: the ciphertext byte
FedByte(orig, updated, decrypt) == IF decrypt THEN orig ELSE updated

\* the end of one iteration of the while loop of crypt: data[i] = updated,
\* the register shifted
crypt_store(c, orig, updated, decrypt) ==
    [data   |-> <<updated>>,
     cipher |-> [key |-> c.key,
                 iv  |-> ShiftIv(c.iv, FedByte(orig, updated, decrypt)),
                 tmp |-> c.iv]]

\* one iteration: the register is encrypted in place and its first byte is
\* xored into data[i]
crypt_byte(c, orig, decrypt) ==
    crypt_store(c, orig, Xor8(orig, AesEncryptBlock(c.key, c.iv)[1]), decrypt)

RECURSIVE crypt_loop(_, _, _)
\* the while loop of crypt over data, first byte to last.  The recursion
\* halves the slice instead of peeling one byte: the bytes of the first half
\* go through crypt_byte in order, then those of the second half, starting
\* from the cipher the first half left.
crypt_loop(c, data, decrypt) ==
    IF data = <<>> THEN [data |-> <<>>, cipher |-> c]
    ELSE IF Len(data) = 1 THEN crypt_byte(c, data[1], decrypt)
    ELSE LET h == Len(data) \div 2
             a == crypt_loop(c, Take(data, h), decrypt)
             b == crypt_loop(a.cipher, Drop(data, h), decrypt)
         IN  [data |-> a.data \o b.data, cipher |-> b.cipher]

\* a variation of crypt: the register the call leaves is not kept
cryptBug(c, data, decrypt) == [data |-> crypt_loop(c, data, decrypt).data, cipher |-> c]

\* MinecraftCipher::crypt: the buffer and the cipher after the call
crypt(c, data, decrypt) == crypt_loop(c, data, decrypt)

encrypt(c, data) == crypt(c, data, FALSE)
decrypt(c, data) == crypt(c, data, TRUE)

(***************************************************************************)
(* mcproto_rs::types::VarInt (crate mcproto_rs): an i32 as 1 to 5 bytes,   *)
(* 7 bits per byte, least significant group first, bit 7 = "more follows". *)
(***************************************************************************)
Pow2_28 == 128 ^ 4

RECURSIVE VarIntGroups(_, _)
\* the groups of a non-negative value below 2^(7n), in at most n bytes
VarIntGroups(u, n) ==
    IF u < 128 \/ n = 1 THEN <<u % 128>>
    ELSE <<128 + (u % 128)>> \o VarIntGroups(u \div 128, n - 1)

\* VarInt(v).mc_serialize: the i32 is written as the u32 with the same bits
VarInt_serialize(v) ==
    IF v >= 0 /\ v < Pow2_28 THEN VarIntGroups(v, 4)
    ELSE LET low == v % Pow2_28
             top == (v \div Pow2_28) % 16
         IN  [i \in 1..4 |-> 128 + ((low \div (128 ^ (i - 1))) % 128)] \o <<top>>

\* the i32 whose bits are the groups of bytes[1..n], n <= 5
VarIntValue(bytes) ==
    LET n    == Len(bytes)
        g(i) == IF i <= n /\ i <= 4 THEN (bytes[i] % 128) * (128 ^ (i - 1)) ELSE 0
        low  == g(1) + g(2) + g(3) + g(4)
        b5   == IF n >= 5 THEN bytes[5] % 16 ELSE 0
    IN  low + (b5 % 8) * Pow2_28 + (IF b5 >= 8 THEN (-2147483647) - 1 ELSE 0)

RECURSIVE VarIntPrefixLen(_, _)
\* how many bytes of data, from index i on, a VarInt takes: up to and
\* including the first byte with a clear bit 7; 0 when data ends first,
\* 6 when five bytes in a row have bit 7 set
VarIntPrefixLen(data, i) ==
    IF i > 5 THEN 6
    ELSE IF i > Len(data) THEN 0
    ELSE IF data[i] < 128 THEN i
    ELSE VarIntPrefixLen(data, i + 1)

\* VarInt::mc_deserialize(data): value and the rest of the slice, or an error
VarInt_deserialize(data) ==
    LET n == VarIntPrefixLen(data, 1)
    IN  IF n = 0 THEN [ok |-> FALSE, err |-> "UnexpectedEof"]
        ELSE IF n = 6 THEN [ok |-> FALSE, err |-> "VarNumTooLong"]
        ELSE [ok |-> TRUE, value |-> VarIntValue(Take(data, n)), rest |-> Drop(data, n)]

(***************************************************************************)
(* Vec<u8> as the buffers use it: its length and its capacity.  The bytes  *)
(* of a buffer are built where an operation stages them; the state keeps   *)
(* the sizes.                                                              *)
(***************************************************************************)
None == <<>>
Some(x) == <<x>>
IsSome(o) == o # <<>>
Unwrap(o) == o[1]

Max2(a, b) == IF a >= b THEN a ELSE b

\* Vec::with_capacity(n)
Vec_with_capacity(n) == [len |-> 0, cap |-> n]

\* Vec::reserve(additional): amortised growth, at least 8 bytes
Vec_reserve(v, additional) ==
    IF v.cap - v.len >= additional THEN v
    ELSE [v EXCEPT !.cap = Max2(8, Max2(v.len + additional,
                                        IF v.cap <= 1000000000 THEN 2 * v.cap ELSE 0))]

\* usize::MAX / 2 does not fit the model's integers: an i32 taken `as usize`
\* is either itself or, when negative, above isize::MAX
AsUsizeOverflows(n) == n < 0

\* a variation of get_sized_buf: the Vec is cut to the bytes needed
get_sized_bufBug(raw_buf, needed) ==
    IF raw_buf.len < needed
    THEN LET r == Vec_reserve(raw_buf, needed - raw_buf.len)
         IN  [r EXCEPT !.len = r.cap]
    ELSE [raw_buf EXCEPT !.len = needed]

\* util::get_sized_buf(raw_buf, needed): the Vec afterwards; the slice it
\* returns is the first `needed` bytes
get_sized_buf(raw_buf, needed) ==
    IF raw_buf.len < needed
    THEN LET r == Vec_reserve(raw_buf, needed - raw_buf.len)
         IN  [r EXCEPT !.len = r.cap]
    ELSE raw_buf

\* a variation of zero_filled: the bytes exposed keep what the memory held
zero_filledBug(bytes, new_len) == bytes \o Rep(new_len - Len(bytes), 255)

\* std::ptr::write_bytes(new_start_at, 0, new_len - cur_len), set_len(new_len)
zero_filled(bytes, new_len) == bytes \o Rep(new_len - Len(bytes), 0)

\* a Vec with its bytes after get_sized_buf has given it the sizes `sized`
resized(vec, sized) ==
    [bytes |-> IF sized.len > Len(vec.bytes) THEN zero_filled(vec.bytes, sized.len)
               ELSE vec.bytes,
     cap |-> sized.cap]

\* util::get_sized_buf(raw_buf, needed) on a Vec with its bytes: the Vec
\* afterwards and the slice &mut raw_buf[..needed]
get_sized_buf_bytes(raw_buf, needed) ==
    LET after == resized(raw_buf, get_sized_buf([len |-> Len(raw_buf.bytes),
                                                 cap |-> raw_buf.cap], needed))
    IN  [vec |-> after, slice |-> Take(after.bytes, needed)]

\* util::init_buf(buf, default_cap): the Option afterwards
init_buf(buf, default_cap) ==
    IF IsSome(buf) THEN buf ELSE Some(Vec_with_capacity(default_cap))

(***************************************************************************)
(* flate2 (crate flate2, over zlib).  The codec is not part of this        *)
(* repository; the bridges depend on three things: the stream is framed    *)
(* (2 header bytes, an end marker, a 4-byte Adler-32), inflate inverts      *)
(* deflate, and both stop when the output slice is full.  The block        *)
(* coding here is run-length pairs <<count, byte>>, closed by a 0 count.   *)
(***************************************************************************)
RECURSIVE RunLength(_)
RunLength(data) ==
    IF data = <<>> THEN <<>>
    ELSE LET b == Head(data)
             n == CHOOSE k \in 1..Len(data) :
                      /\ \A j \in 1..k : data[j] = b
                      /\ (k = Len(data) \/ data[k + 1] # b \/ k = 255)
         IN  <<n, b>> \o RunLength(Drop(data, n))

RECURSIVE AdlerSums(_, _, _)
\* over data[lo..hi]: the sum of the bytes, and the sum of the bytes each
\* counted once for every position from its own to the last of data
AdlerSums(data, lo, hi) ==
    IF lo > hi THEN <<0, 0>>
    ELSE IF lo = hi THEN <<data[lo], (Len(data) - lo + 1) * data[lo]>>
    ELSE LET mid == (lo + hi) \div 2
             l   == AdlerSums(data, lo, mid)
             r   == AdlerSums(data, mid + 1, hi)
         IN  <<l[1] + r[1], l[2] + r[2]>>

\* the checksum that closes a zlib stream, big-endian: a = 1 + the bytes,
\* b = the sum of a after every byte, both modulo 65521
adler_bytes(a, b) == <<b \div 256, b % 256, a \div 256, a % 256>>

adler_of(sums, n) == adler_bytes((1 + sums[1]) % 65521, (n + sums[2]) % 65521)

Adler32(data) == adler_of(AdlerSums(data, 1, Len(data)), Len(data))

\* the whole zlib stream for data (window_bits 15, Compression::fast)
Deflate(data) == <<120, 1>> \o RunLength(data) \o <<0>> \o Adler32(data)

RECURSIVE InflateRuns(_, _)
\* the run-length pairs of z up to the end marker: the bytes they stand for
\* and what follows the marker
InflateRuns(z, out) ==
    IF z = <<>> THEN [ok |-> FALSE, truncated |-> TRUE]
    ELSE IF Head(z) = 0 THEN [ok |-> TRUE, out |-> out, rest |-> Tail(z)]
    ELSE IF Len(z) < 2 THEN [ok |-> FALSE, truncated |-> TRUE]
    ELSE InflateRuns(Drop(z, 2), out \o Rep(z[1], z[2]))

\* the end of a stream whose runs r were read: the output must fit, the
\* checksum must follow and match
inflate_end(r, room) ==
    IF ~r.ok THEN [status |-> "BufError", out |-> <<>>]
    ELSE IF Len(r.out) > room THEN [status |-> "BufError", out |-> Take(r.out, room)]
    ELSE IF Len(r.rest) < 4 THEN [status |-> "BufError", out |-> r.out]
    ELSE IF Take(r.rest, 4) # Adler32(r.out) THEN [status |-> "Err", out |-> r.out]
    ELSE [status |-> "StreamEnd", out |-> r.out]

\* Decompress::decompress(input, output, FlushDecompress::Finish) on a fresh
\* stream with `room` bytes of output: the Status (or Err) and total_out
Inflate(input, room) ==
    IF Len(input) < 2 THEN [status |-> "BufError", out |-> <<>>]
    ELSE IF input[1] # 120 \/ (input[1] * 256 + input[2]) % 31 # 0
    THEN [status |-> "Err", out |-> <<>>]
    ELSE inflate_end(InflateRuns(Drop(input, 2), <<>>), room)

(***************************************************************************)
(* Byte slices with the offsets of the source (from 0).                    *)
(***************************************************************************)
\* buf[a..b]
Slice(buf, a, b) == SubSeq(buf, a + 1, b)

\* buf with bytes copied in at offset `at`
Overwrite(buf, at, bytes) ==
    [i \in 1..Len(buf) |-> IF i > at /\ i <= at + Len(bytes) THEN bytes[i - at] ELSE buf[i]]

\* a byte of a buffer that the program has not written in this call: the
\* zero fill of get_sized_buf or what an earlier packet left there
Stale == 0 - 1

(***************************************************************************)
(* writer.rs                                                               *)
(***************************************************************************)
EXTRA_FREE_SPACE == 15

\* the capacity init_buf is called with for the raw buffers
RAW_BUF_DEFAULT_CAP == 512

\* copy_data_rightwards(target, start..end, shift_amount); buf_len is
\* target.len()
copy_data_rightwards(target, buf_len, start, end, shift_amount) ==
    IF shift_amount = 0 THEN [panic |-> FALSE, buf |-> target]
    ELSE IF start >= buf_len \/ end > buf_len THEN [panic |-> TRUE, buf |-> target]
    ELSE IF start + shift_amount >= buf_len \/ end + shift_amount > buf_len
         THEN [panic |-> TRUE, buf |-> target]
    ELSE [panic |-> FALSE,
          buf   |-> Overwrite(target, start + shift_amount, Slice(target, start, end))]

\* what a SliceSerializer and copy_data_rightwards leave: n bytes written,
\* moved 5 - n to the right
shifted(moved, n) == [panic |-> moved.panic, buf |-> moved.buf, n |-> n]

\* A SliceSerializer over buf[zone..zone + 5] takes `bytes` at its offset 0,
\* then copy_data_rightwards moves them to the end of the zone
place_shifted(buf, buf_len, zone, bytes) ==
    shifted(copy_data_rightwards(Overwrite(buf, zone, bytes), buf_len,
                                 zone, zone + Len(bytes), 5 - Len(bytes)),
            Len(bytes))

\* a VarInt serialized into buf[zone..zone + 5] and moved up against
\* buf[zone + 5]
serialize_shifted(buf, buf_len, zone, v) ==
    place_shifted(buf, buf_len, zone, VarInt_serialize(v))

RECURSIVE compress_loop(_, _, _)
\* the loop around Compress::compress: z is the stream deflate has to put
\* out, total_out what it has put out so far.  Each pass fills the region
\* compress_buf[15 + total_out..]; a pass that cannot finish ends in BufError
\* and get_sized_buf(compress_buf, total_out).  A pass that starts in the
\* state the pass before started in repeats it for ever.
compress_loop(cb, z, total_out) ==
    LET room  == cb.len - EXTRA_FREE_SPACE - total_out
        fits  == Len(z) - total_out <= room
        out2  == IF fits THEN Len(z) ELSE total_out + room
        grown == get_sized_buf(cb, out2)
    IN  IF fits THEN [res |-> "ok", cb |-> cb, total_out |-> out2]
        ELSE IF grown = cb /\ out2 = total_out THEN [res |-> "hang", cb |-> cb, total_out |-> out2]
        ELSE compress_loop(grown, z, out2)

\* the tuple (packet_buf, start_at, end_at) of the compressed branch, once
\* data_len is in compress_buf[10..15] and moved
compressed_region(run, dl) ==
    IF dl.panic THEN [res |-> "panic", compress_buf |-> Some(run.cb)]
    ELSE [res |-> "ok", buf |-> dl.buf, buf_len |-> run.cb.len,
          compress_buf |-> Some(run.cb),
          start_at |-> EXTRA_FREE_SPACE - dl.n,
          end_at |-> EXTRA_FREE_SPACE + run.total_out]

\* after the compress loop: data_len is written before the stream
write_data_len(run, z, data_len) ==
    IF run.res = "hang" THEN [res |-> "hang", compress_buf |-> Some(run.cb)]
    ELSE compressed_region(run, serialize_shifted(Rep(EXTRA_FREE_SPACE, Stale) \o z, run.cb.len,
                                                  EXTRA_FREE_SPACE - 5, data_len))

\* the compress buffer is sized to src.len(); the first pass of the loop
\* slices compress_buf[15..]
compress_into(cb, z, data_len) ==
    IF cb.len < EXTRA_FREE_SPACE THEN [res |-> "panic", compress_buf |-> Some(cb)]
    ELSE write_data_len(compress_loop(cb, z, 0), z, data_len)

\* the branch that compresses src = id || body
compress_src(w, src) ==
    compress_into(get_sized_buf(IF IsSome(w.compress_buf) THEN Unwrap(w.compress_buf)
                                ELSE Vec_with_capacity(Len(src)),
                                Len(src)),
                  Deflate(src), Len(src))

\* the branch on compression_threshold of write_packet_in_buf: which buffer
\* holds the frame region, and where
frame_region(w, raw, raw_len, id_len, packet_offset, body_len) ==
    LET data_len      == id_len + body_len
        data_start_at == packet_offset - id_len
    IN  IF ~IsSome(w.compression_threshold)
        THEN [res |-> "ok", buf |-> raw, buf_len |-> raw_len, compress_buf |-> w.compress_buf,
              start_at |-> data_start_at, end_at |-> data_start_at + data_len]
        ELSE IF AsUsizeOverflows(Unwrap(w.compression_threshold))
                \/ data_len < Unwrap(w.compression_threshold)
        THEN [res |-> "ok", buf |-> Overwrite(raw, data_start_at - 1, <<0>>), buf_len |-> raw_len,
              compress_buf |-> w.compress_buf,
              start_at |-> data_start_at - 1, end_at |-> data_start_at + data_len]
        ELSE compress_src(w, Slice(raw, data_start_at, data_start_at + data_len))

\* a variation of id_guard: the state of the id is not looked at
id_guardBug(w, id) ==
    IF id.direction # w.direction THEN "err_direction" ELSE "ok"

\* the guard of write_packet_in_buf: the error it returns, or "ok"
id_guard(w, id) ==
    IF id.direction # w.direction THEN "err_direction"
    ELSE IF id.state # w.state THEN "err_state"
    ELSE "ok"

\* a call of write_packet_in_buf that ends before write_all
write_fails(res, w) == [res |-> res, writer |-> w, frame |-> <<>>, bytes |-> <<>>]

\* the slice went through the cipher, if there is one, and to write_all
written(w, frame, sealed) ==
    [res |-> "ok", writer |-> [w EXCEPT !.encryption = sealed.encryption],
     frame |-> frame, bytes |-> sealed.bytes]

\* what the cipher leaves of a slice: the Option with the cipher, the bytes
sealed(r) == [encryption |-> Some(r.cipher), bytes |-> r.data]

\* a variation of encrypt_frame: the first byte of the slice, a byte of the
\* length prefix, goes out as it is
encrypt_frameBug(enc, frame) ==
    IF IsSome(enc) /\ frame # <<>>
    THEN [encryption |-> Some(encrypt(Unwrap(enc), Tail(frame)).cipher),
          bytes |-> <<Head(frame)>> \o encrypt(Unwrap(enc), Tail(frame)).data]
    ELSE [encryption |-> enc, bytes |-> frame]

\* enc.encrypt(packet_data), if the writer has a cipher
encrypt_frame(enc, frame) ==
    IF IsSome(enc) THEN sealed(encrypt(Unwrap(enc), frame))
    ELSE [encryption |-> enc, bytes |-> frame]

\* packet_data = packet_buf[new_len_start_at..end_at] is encrypted and
\* written
write_frame(w, frame) == written(w, frame, encrypt_frame(w.encryption, frame))

\* a variation of write_len: the slice starts where the length was
\* serialized, not where it was moved to
write_lenBug(w, reg, lens) ==
    IF lens.panic THEN write_fails("panic", w)
    ELSE write_frame(w, Slice(lens.buf, reg.start_at - 5, reg.end_at))

\* the length prefix is in place
write_len(w, reg, lens) ==
    IF lens.panic THEN write_fails("panic", w)
    ELSE write_frame(w, Slice(lens.buf, reg.start_at - lens.n, reg.end_at))

\* the frame region is chosen: the length is prefixed to it
prefix_len(w, reg) ==
    IF reg.res # "ok" THEN write_fails(reg.res, [w EXCEPT !.compress_buf = reg.compress_buf])
    ELSE IF reg.start_at < 5
    THEN write_fails("panic", [w EXCEPT !.compress_buf = reg.compress_buf])
    ELSE write_len([w EXCEPT !.compress_buf = reg.compress_buf], reg,
                   serialize_shifted(reg.buf, reg.buf_len, reg.start_at - 5,
                                     reg.end_at - reg.start_at))

\* the id is in raw_buf[packet_offset - id_len..packet_offset]
write_id(w, ids, packet_offset, body_len) ==
    IF ids.panic THEN write_fails("panic", w)
    ELSE prefix_len(w, frame_region(w, ids.buf, Unwrap(w.raw_buf).len, ids.n,
                                    packet_offset, body_len))

\* write_packet_in_buf past its guard, the raw buffer made
stage_id(w, raw, id, packet_offset, body_len) ==
    IF Unwrap(w.raw_buf).len < packet_offset THEN write_fails("panic", w)
    ELSE write_id(w, serialize_shifted(raw, Unwrap(w.raw_buf).len, packet_offset - 5, id.id),
                  packet_offset, body_len)

\* write_packet_in_buf(id, packet_offset, body_len) on writer w whose raw
\* buffer holds `raw`: the outcome, the writer afterwards, the slice before
\* encryption and the bytes handed to write_all
write_packet_in_buf(w, raw, id, packet_offset, body_len) ==
    IF id_guard(w, id) # "ok" THEN write_fails(id_guard(w, id), w)
    ELSE stage_id([w EXCEPT !.raw_buf = init_buf(w.raw_buf, RAW_BUF_DEFAULT_CAP)],
                  raw, id, packet_offset, body_len)

\* the raw buffer of w sized by get_sized_buf(raw_buf, end_at)
sized_raw_buf(w, end_at) ==
    Some(get_sized_buf(Unwrap(init_buf(w.raw_buf, RAW_BUF_DEFAULT_CAP)), end_at))

\* write_raw_packet(packet): the body is copied to offset 15 of the raw
\* buffer, sized to hold it, before write_packet_in_buf looks at the id
write_raw_packet(w, packet) ==
    write_packet_in_buf([w EXCEPT !.raw_buf = sized_raw_buf(w, EXTRA_FREE_SPACE + Len(packet.data))],
                        Rep(EXTRA_FREE_SPACE, Stale) \o packet.data, packet.id,
                        EXTRA_FREE_SPACE, Len(packet.data))

\* write_packet(packet): the body serializer writes through a
\* GrowVecSerializer starting at offset 15; serialize_bytes sizes the buffer
\* for each piece it is handed, and a packet without fields hands it none
write_packet(w, packet) ==
    write_packet_in_buf(
        [w EXCEPT !.raw_buf = IF packet.data = <<>>
                              THEN init_buf(w.raw_buf, RAW_BUF_DEFAULT_CAP)
                              ELSE sized_raw_buf(w, EXTRA_FREE_SPACE + Len(packet.data))],
        Rep(EXTRA_FREE_SPACE, Stale) \o packet.data, packet.id,
        EXTRA_FREE_SPACE, Len(packet.data))

(***************************************************************************)
(* The packet catalog (mcproto_rs::v1_15_2): the ids RawPacket578 knows.   *)
(* The bridges only pass ids through it; the model keeps a few entries.    *)
(***************************************************************************)
State == {"Handshaking", "Status", "Login", "Play"}
PacketDirection == {"ServerBound", "ClientBound"}

Catalog ==
    {[state |-> st, direction |-> d, id |-> 0] : st \in State, d \in PacketDirection}
    \cup {[state |-> "Play", direction |-> d, id |-> 42] : d \in PacketDirection}

(***************************************************************************)
(* reader.rs                                                               *)
(***************************************************************************)
\* what a cipher call leaves: the Option with the cipher, and the bytes
through_cipher(r) == [encryption |-> Some(r.cipher), bytes |-> r.data]

\* encryption.decrypt(bytes), if the reader has a cipher
decrypt_read(enc, bytes) ==
    IF IsSome(enc) THEN through_cipher(decrypt(Unwrap(enc), bytes))
    ELSE [encryption |-> enc, bytes |-> bytes]

\* a variation of varint_eof: the test of len the wrong way round
varint_eofBug(len) == IF len = 0 THEN "err_eof" ELSE "eof"

\* what read_one_varint returns when stream.read gives 0 bytes, with len
\* bytes of the VarInt read: Ok(None), which read_packet passes on
varint_eof(len) == "eof"

\* what read_packet returns when read_exact meets the end of the stream
read_exact_eof == "err_eof"

\* a variation of varint_byte: a fifth byte ends the VarInt whatever its
\* continuation bit
varint_byteBug(r, buf, d) ==
    IF d.bytes[1] >= 128 /\ Len(buf) + 1 < 5
    THEN [res |-> "more", reader |-> [r EXCEPT !.encryption = d.encryption],
          buf |-> buf \o d.bytes]
    ELSE [res |-> "done", reader |-> [r EXCEPT !.encryption = d.encryption],
          buf |-> buf \o d.bytes, value |-> VarIntValue(buf \o d.bytes)]

\* the loop of read_one_varint with the byte d decrypted into buf[len]: it
\* goes on ("more"), ends at the top of its sixth pass ("err_varint"), or
\* the VarInt is deserialized ("done")
varint_byte(r, buf, d) ==
    IF d.bytes[1] >= 128 /\ Len(buf) + 1 = 5
    THEN [res |-> "err_varint", reader |-> [r EXCEPT !.encryption = d.encryption],
          buf |-> buf \o d.bytes]
    ELSE IF d.bytes[1] >= 128
    THEN [res |-> "more", reader |-> [r EXCEPT !.encryption = d.encryption],
          buf |-> buf \o d.bytes]
    ELSE [res |-> "done", reader |-> [r EXCEPT !.encryption = d.encryption],
          buf |-> buf \o d.bytes, value |-> VarInt_deserialize(buf \o d.bytes).value]

\* one pass of the loop of read_one_varint with a byte from the stream:
\* buf is buf[..len] so far
read_one_varint_step(r, buf, byte) ==
    varint_byte(r, buf, decrypt_read(r.encryption, <<byte>>))

\* read_packet between read_one_varint and read_exact: the raw buffer is
\* made and sized to packet_len as usize
size_raw_buf(r, packet_len) ==
    IF AsUsizeOverflows(packet_len) THEN [res |-> "panic", reader |-> r, need |-> packet_len]
    ELSE [res |-> "body", need |-> packet_len,
          reader |-> [r EXCEPT !.raw_buf =
              Some(get_sized_buf(Unwrap(init_buf(r.raw_buf, RAW_BUF_DEFAULT_CAP)), packet_len))]]

\* read_packet up to read_exact, after a pass of read_one_varint
await_body(st) ==
    IF st.res = "done" THEN size_raw_buf(st.reader, st.value)
    ELSE [res |-> st.res, reader |-> st.reader, buf |-> st.buf]

\* read_packet from a byte of the frame length to where it next waits for
\* the stream or returns
read_packet_start(r, buf, byte) == await_body(read_one_varint_step(r, buf, byte))

\* the result of the decompress loop
inflated(r, inf) ==
    IF inf.status = "StreamEnd" THEN [res |-> "ok", reader |-> r, buf |-> inf.out]
    ELSE [res |-> "err_inflate", reader |-> r]

\* the branch of read_packet for a data length dl that deserialized
decompress_data(r, dl) ==
    IF dl.value = 0 THEN [res |-> "ok", reader |-> r, buf |-> dl.rest]
    ELSE IF AsUsizeOverflows(dl.value) THEN [res |-> "panic", reader |-> r]
    ELSE inflated([r EXCEPT !.decompress_buf =
                       Some(get_sized_buf(IF IsSome(r.decompress_buf)
                                          THEN Unwrap(r.decompress_buf)
                                          ELSE Vec_with_capacity(dl.value),
                                          dl.value))],
                  Inflate(dl.rest, dl.value))

\* the data length of a frame read with a threshold set
read_data_len(r, dl) ==
    IF ~dl.ok THEN [res |-> "err_deserialize", reader |-> r]
    ELSE decompress_data(r, dl)

\* the compression branch of read_packet over the decrypted frame
decompress_frame(r, buf) ==
    IF ~IsSome(r.compression_threshold) THEN [res |-> "ok", reader |-> r, buf |-> buf]
    ELSE read_data_len(r, VarInt_deserialize(buf))

\* RawPacketContainer{..}.try_into(): the catalog's lookup of the id
try_into(id, data) ==
    IF id \in Catalog THEN [res |-> "packet", packet |-> [id |-> id, data |-> data]]
    ELSE [res |-> "err_unknown_id"]

\* a variation of tag_id: the tag is the state a reader starts in
tag_idBug(r, n) == [state |-> "Handshaking", direction |-> r.direction, id |-> n]

\* the tag read_packet puts on the id it decoded
tag_id(r, n) == [state |-> r.state, direction |-> r.direction, id |-> n]

\* what read_packet returns, with the reader as it leaves it
returned(r, p) ==
    IF p.res = "packet" THEN [res |-> "packet", reader |-> r, packet |-> p.packet]
    ELSE [res |-> p.res, reader |-> r]

\* the packet id pid read from the front of the data
read_id(r, pid) ==
    IF ~pid.ok THEN [res |-> "err_deserialize", reader |-> r]
    ELSE returned(r, try_into(tag_id(r, pid.value), pid.rest))

\* read_packet over what the compression branch left
read_data(dc) ==
    IF dc.res # "ok" THEN [res |-> dc.res, reader |-> dc.reader]
    ELSE read_id(dc.reader, VarInt_deserialize(dc.buf))

\* read_packet once the frame is decrypted
read_decrypted(r, d) ==
    read_data(decompress_frame([r EXCEPT !.encryption = d.encryption], d.bytes))

\* read_packet after read_exact has filled buf: decrypt, decompress, decode
\* the id, build the packet
read_packet_finish(r, raw) == read_decrypted(r, decrypt_read(r.encryption, raw))

(***************************************************************************)
(* Bridge for both halves                                                  *)
(***************************************************************************)
\* a variation of enable_encryption: the cipher is made and installed before
\* the test for an installed one
enable_encryptionBug(half, key, iv) ==
    LET made == MinecraftCipher_new(key, iv)
    IN  IF IsSome(half.encryption)
        THEN [res |-> "err_double_enable",
              half |-> IF made.ok THEN [half EXCEPT !.encryption = Some(made.cipher)] ELSE half]
        ELSE IF ~made.ok THEN [res |-> "err_key", half |-> half]
        ELSE [res |-> "enabled", half |-> [half EXCEPT !.encryption = Some(made.cipher)]]

\* enable_encryption(key, iv) on a half: what it returns and the half after
enable_encryption(half, key, iv) ==
    LET made == MinecraftCipher_new(key, iv)
    IN  IF IsSome(half.encryption) THEN [res |-> "err_double_enable", half |-> half]
        ELSE IF ~made.ok THEN [res |-> "err_key", half |-> half]
        ELSE [res |-> "enabled", half |-> [half EXCEPT !.encryption = Some(made.cipher)]]

\* TcpConnection::enable_encryption(key, iv) on the two halves of a
\* connection: the reader's call, the writer's call when the reader's has
\* returned Ok (None when `?` has returned before it), and what the
\* connection's call returns
TcpConnection_enable_encryption(r, w, key, iv) ==
    LET on_reader == enable_encryption(r, key, iv)
    IN  IF on_reader.res # "enabled"
        THEN [res |-> on_reader.res, on_reader |-> on_reader, on_writer |-> None]
        ELSE LET on_writer == enable_encryption(w, key, iv)
             IN  [res |-> on_writer.res, on_reader |-> on_reader,
                  on_writer |-> Some(on_writer)]

set_state(half, next) == [half EXCEPT !.state = next]

set_compression_threshold(half, threshold) == [half EXCEPT !.compression_threshold = threshold]

(***************************************************************************)
(* The system: a WriteBridge and a ReadBridge at the two ends of one       *)
(* direction of a transport (Spec), or a ReadBridge fed by a foreign peer  *)
(* that sends what bytes it likes (SpecRaw).                               *)
(***************************************************************************)
lab_vars == <<lab_key, lab_iv, lab_plain, lab_enc, lab_ct, lab_dec, lab_pt, lab_calls,
              buf_vec, buf_call, conn_call>>

sys_vars == <<writer, reader, wire, closed, w_res, w_calls, w_arg, w_frame, w_keyiv,
              w_clear, w_sent, raw_sent, r_pc, r_vbuf, r_need, r_res, r_pkt, r_keyiv,
              r_got, inflight, r_expect, r_eof>>

w_vars == <<writer, w_res, w_calls, w_arg, w_frame, w_keyiv, w_clear, w_sent>>
r_vars == <<reader, r_pc, r_vbuf, r_need, r_res, r_pkt, r_keyiv, r_got, r_expect, r_eof>>

\* the inputs the model draws
ModelStates == {"Handshaking", "Play"}
ModelThresholds == {None, Some(4)}
Key1 == Rep(BYTES_SIZE, 0)
Key2 == [i \in 1..BYTES_SIZE |-> (37 * i) % 256]
Iv1 == Rep(BYTES_SIZE, 0)
ModelKeyIvs == {<<Key1, Iv1>>, <<Key2, Iv1>>}
\* key material of the wrong length: a key of 15 bytes, an iv of 17
BadKeyIvs == {<<Take(Key1, BYTES_SIZE - 1), Iv1>>, <<Key1, Append(Iv1, 0)>>}
Pkt(state, direction, id, data) ==
    [id |-> [state |-> state, direction |-> direction, id |-> id], data |-> data]
\* packets of the writer's direction: without fields, short, long enough to
\* deflate into its buffer, and one of another state; and one of the other
\* direction
ModelPackets ==
    {Pkt("Handshaking", "ServerBound", 0, <<>>),
     Pkt("Handshaking", "ServerBound", 0, <<1, 2, 3>>),
     Pkt("Handshaking", "ServerBound", 0, Rep(LongBody, 0)),
     Pkt("Play", "ServerBound", 42, Rep(MidBody, 7)),
     Pkt("Handshaking", "ClientBound", 0, <<>>)}
RawBytes == {0, 1, 8, 128}

\* WriteBridge::initial
WriteBridge_initial(direction) ==
    [direction |-> direction, state |-> "Handshaking", raw_buf |-> None,
     compress_buf |-> None, compression_threshold |-> None, encryption |-> None]

\* ReadBridge::initial
ReadBridge_initial(direction) ==
    [direction |-> direction, state |-> "Handshaking", raw_buf |-> None,
     decompress_buf |-> None, compression_threshold |-> None, encryption |-> None]

SysInit ==
    /\ writer = WriteBridge_initial("ServerBound")
    /\ \E d \in PacketDirection : reader = ReadBridge_initial(d)
    /\ wire = <<>>
    /\ closed = FALSE
    /\ w_res = "new"
    /\ w_calls = 0
    /\ w_arg = None
    /\ w_frame = <<>>
    /\ w_keyiv = None
    /\ w_clear = <<>>
    /\ w_sent = <<>>
    /\ raw_sent = 0
    /\ r_pc = "varint"
    /\ r_vbuf = <<>>
    /\ r_need = 0
    /\ r_res = "new"
    /\ r_pkt = None
    /\ r_keyiv = None
    /\ r_got = <<>>
    /\ inflight = <<>>
    /\ r_expect = None
    /\ r_eof = None

\* a panic unwinds the task that drives the half; a loop that never ends
\* keeps it
WriterAlive == w_res \notin {"panic", "hang"}

\* the writer's host has packets left to write: it makes its calls on the
\* writer up to the last write the model follows
WriterBusy == WriterAlive /\ ~closed /\ w_calls < MaxWrites

ReadErrors == {"err_varint", "err_eof", "err_deserialize", "err_inflate", "err_unknown_id",
               "panic"}

\* an error of read_packet retires the reader: the stream position is lost
ReaderAlive == r_res \notin ReadErrors

\* no read_packet is under way
ReaderIdle == r_pc = "varint" /\ r_vbuf = <<>>

\* what a write call leaves behind
Written(kind, packet, out) ==
    /\ writer' = out.writer
    /\ w_res' = out.res
    /\ w_calls' = w_calls + 1
    /\ w_arg' = Some([kind |-> kind, packet |-> packet, state |-> writer.state,
                      threshold |-> writer.compression_threshold, keyiv |-> w_keyiv])
    /\ w_frame' = out.frame
    /\ wire' = wire \o out.bytes
    /\ w_clear' = IF IsSome(writer.encryption) THEN w_clear \o out.frame ELSE w_clear
    /\ w_sent' = IF IsSome(writer.encryption) THEN w_sent \o out.bytes ELSE w_sent
    /\ inflight' = IF out.res = "ok"
                   THEN Append(inflight, [id |-> packet.id, data |-> packet.data,
                                          threshold |-> writer.compression_threshold,
                                          keyiv |-> w_keyiv])
                   ELSE inflight
    /\ UNCHANGED <<closed, w_keyiv, raw_sent, r_vars, lab_vars>>

WriteRawPacket(packet) ==
    /\ WriterBusy
    /\ Written("raw", packet, write_raw_packet(writer, packet))

WritePacket(packet) ==
    /\ WriterBusy
    /\ Written("typed", packet, write_packet(writer, packet))

W_set_state(next) ==
    /\ WriterBusy
    /\ writer' = set_state(writer, next)
    /\ UNCHANGED <<wire, closed, w_res, w_calls, w_arg, w_frame, w_keyiv, w_clear, w_sent,
                   raw_sent, inflight, r_vars, lab_vars>>

W_set_compression_threshold(threshold) ==
    /\ WriterBusy
    /\ writer' = set_compression_threshold(writer, threshold)
    /\ UNCHANGED <<wire, closed, w_res, w_calls, w_arg, w_frame, w_keyiv, w_clear, w_sent,
                   raw_sent, inflight, r_vars, lab_vars>>

W_enable_encryption(key, iv) ==
    /\ WriterBusy
    /\ LET out == enable_encryption(writer, key, iv)
       IN  /\ writer' = out.half
           /\ w_res' = out.res
           /\ w_keyiv' = IF out.res = "enabled" THEN Some(<<key, iv>>) ELSE w_keyiv
    /\ w_arg' = Some([kind |-> "enable", keyiv |-> <<key, iv>>])
    /\ UNCHANGED <<wire, closed, w_calls, w_frame, w_clear, w_sent, raw_sent, inflight,
                   r_vars, lab_vars>>

\* the sending side shuts the transport down (or is dropped)
Close ==
    /\ ~closed
    /\ closed' = TRUE
    /\ UNCHANGED <<w_vars, wire, raw_sent, inflight, r_vars, lab_vars>>

\* the foreign peer sends one byte
PeerSend(b) ==
    /\ ~closed /\ raw_sent < MaxRaw
    /\ wire' = Append(wire, b)
    /\ raw_sent' = raw_sent + 1
    /\ UNCHANGED <<w_vars, closed, inflight, r_vars, lab_vars>>

\* the bytes the reader's cipher was handed
Got(bytes) == IF IsSome(reader.encryption) THEN r_got \o bytes ELSE r_got

\* read_packet has taken a byte of the frame length and come to st
LengthByteRead(st) ==
    /\ wire' = Tail(wire)
    /\ r_got' = Got(<<Head(wire)>>)
    /\ reader' = st.reader
    /\ r_vbuf' = IF st.res = "more" THEN st.buf ELSE <<>>
    /\ r_need' = IF st.res \in {"body", "panic"} THEN st.need ELSE r_need
    /\ r_pc' = IF st.res = "body" THEN "body" ELSE r_pc
    /\ r_res' = IF st.res \in {"more", "body"} THEN r_res ELSE st.res
    /\ r_pkt' = IF st.res \in {"more", "body"} THEN r_pkt ELSE None

\* one pass of the loop of read_one_varint: stream.read(&mut buf[len..len + 1])
\* returns 1 byte, or 0 at the end of the stream; with the VarInt complete,
\* read_packet goes on to size the raw buffer and waits in read_exact
ReadVarIntByte ==
    /\ ReaderAlive /\ r_pc = "varint"
    /\ wire # <<>> \/ closed
    /\ IF wire = <<>>
       THEN /\ r_res' = varint_eof(Len(r_vbuf))
            /\ r_vbuf' = <<>>
            /\ r_pkt' = None
            /\ r_eof' = Some(Len(r_vbuf))
            /\ UNCHANGED <<reader, wire, r_pc, r_need, r_got>>
       ELSE LengthByteRead(read_packet_start(reader, r_vbuf, Head(wire))) /\ UNCHANGED r_eof
    /\ UNCHANGED <<w_vars, closed, raw_sent, r_keyiv, inflight, r_expect, lab_vars>>

\* read_packet has taken the frame and returned fin
FrameRead(fin) ==
    /\ wire' = Drop(wire, r_need)
    /\ r_got' = Got(Take(wire, r_need))
    /\ reader' = fin.reader
    /\ r_res' = fin.res
    /\ r_pkt' = IF fin.res = "packet" THEN Some(fin.packet) ELSE None
    /\ IF inflight = <<>>
       THEN UNCHANGED <<inflight, r_expect>>
       ELSE /\ inflight' = Tail(inflight)
            /\ r_expect' = Some([written |-> Head(inflight), state |-> reader.state])

\* read_exact returns: with the r_need bytes of the frame, or with
\* UnexpectedEof when the stream ends before them; then the rest of
\* read_packet
ReadBody ==
    /\ ReaderAlive /\ r_pc = "body"
    /\ Len(wire) >= r_need \/ closed
    /\ r_pc' = "varint"
    /\ r_need' = 0
    /\ IF Len(wire) < r_need
       THEN /\ wire' = <<>>
            /\ r_res' = read_exact_eof
            /\ r_pkt' = None
            /\ UNCHANGED <<reader, r_got, inflight, r_expect>>
       ELSE FrameRead(read_packet_finish(reader, Take(wire, r_need)))
    /\ UNCHANGED <<w_vars, closed, raw_sent, r_vbuf, r_keyiv, r_eof, lab_vars>>

R_set_state(next) ==
    /\ ReaderAlive /\ ReaderIdle
    /\ reader' = set_state(reader, next)
    /\ UNCHANGED <<w_vars, wire, closed, raw_sent, inflight,
                   r_pc, r_vbuf, r_need, r_res, r_pkt, r_keyiv, r_got, r_expect, r_eof,
                   lab_vars>>

R_set_compression_threshold(threshold) ==
    /\ ReaderAlive /\ ReaderIdle
    /\ reader' = set_compression_threshold(reader, threshold)
    /\ UNCHANGED <<w_vars, wire, closed, raw_sent, inflight,
                   r_pc, r_vbuf, r_need, r_res, r_pkt, r_keyiv, r_got, r_expect, r_eof,
                   lab_vars>>

R_enable_encryption(key, iv) ==
    /\ ReaderAlive /\ ReaderIdle
    /\ LET out == enable_encryption(reader, key, iv)
       IN  /\ reader' = out.half
           /\ r_res' = out.res
           /\ r_keyiv' = IF out.res = "enabled" THEN Some(<<key, iv>>) ELSE r_keyiv
    /\ UNCHANGED <<w_vars, wire, closed, raw_sent, inflight,
                   r_pc, r_vbuf, r_need, r_pkt, r_got, r_expect, r_eof, lab_vars>>

\* conn.enable_encryption(key, iv) on a TcpConnection that owns both halves
C_enable_encryption(key, iv) ==
    /\ WriterBusy
    /\ ReaderAlive /\ ReaderIdle
    /\ LET out == TcpConnection_enable_encryption(reader, writer, key, iv)
       IN  /\ reader' = out.on_reader.half
           /\ r_res' = out.on_reader.res
           /\ r_keyiv' = IF out.on_reader.res = "enabled" THEN Some(<<key, iv>>) ELSE r_keyiv
           /\ IF IsSome(out.on_writer)
              THEN /\ writer' = Unwrap(out.on_writer).half
                   /\ w_res' = Unwrap(out.on_writer).res
                   /\ w_keyiv' = IF Unwrap(out.on_writer).res = "enabled"
                                 THEN Some(<<key, iv>>) ELSE w_keyiv
                   /\ w_arg' = Some([kind |-> "enable", keyiv |-> <<key, iv>>])
              ELSE UNCHANGED <<writer, w_res, w_keyiv, w_arg>>
           /\ conn_call' = Some([keyiv |-> <<key, iv>>, res |-> out.res,
                                 odd |-> conn_call = None \/ ~Unwrap(conn_call).odd])
    /\ UNCHANGED <<wire, closed, w_calls, w_frame, w_clear, w_sent, raw_sent, inflight,
                   r_pc, r_vbuf, r_need, r_pkt, r_got, r_expect, r_eof,
                   lab_key, lab_iv, lab_plain, lab_enc, lab_ct, lab_dec, lab_pt, lab_calls,
                   buf_vec, buf_call>>

(***************************************************************************)
(* Spec: the two hosts follow the protocol.  A change of compression or    *)
(* encryption takes effect on both ends at the same packet boundary: the   *)
(* reader's host applies, before the frame of a written packet is read,    *)
(* the settings that packet was written under.  What the reader does with  *)
(* bytes that were not framed for its settings is the subject of SpecRaw.  *)
(***************************************************************************)
\* the reader reads the next frame under the settings it was written under
InStep ==
    inflight # <<>> =>
        /\ reader.compression_threshold = Head(inflight).threshold
        /\ r_keyiv = Head(inflight).keyiv

\* read_packet is called, or goes on, with the reader in step
InStepReadVarIntByte == InStep /\ ReadVarIntByte

\* the host passes on the threshold of the next packet
InStepSetThreshold ==
    /\ inflight # <<>>
    /\ R_set_compression_threshold(Head(inflight).threshold)

\* the host enables encryption with the key of the next packet; or calls
\* enable_encryption, with whatever key, on a reader that has a cipher
InStepEnableEncryption(key, iv) ==
    /\ \/ IsSome(reader.encryption)
       \/ inflight # <<>> /\ Head(inflight).keyiv = Some(<<key, iv>>)
    /\ R_enable_encryption(key, iv)

(***************************************************************************)
(* SpecCipher: two ciphers built from the same (key, iv); one encrypts the *)
(* plaintext slice by slice, the other decrypts the ciphertext produced so *)
(* far slice by slice.  A slice may be empty.                              *)
(***************************************************************************)
LabBytes == {0, 1, 255}
LabKeys == {Rep(BYTES_SIZE, 0), [i \in 1..BYTES_SIZE |-> (37 * i) % 256]}
LabIvs == {Rep(BYTES_SIZE, 0), [i \in 1..BYTES_SIZE |-> 255 - i]}

RECURSIVE SeqsUpTo(_, _)
\* the sequences over S of length at most n
SeqsUpTo(S, n) ==
    IF n = 0 THEN {<<>>}
    ELSE LET shorter == SeqsUpTo(S, n - 1)
         IN  shorter \cup {Append(s, b) : s \in {t \in shorter : Len(t) = n - 1}, b \in S}

\* the Vec of SpecBuf and the connection of SpecBridge before any call
BufIdle ==
    /\ buf_vec = [bytes |-> <<>>, cap |-> 0]
    /\ buf_call = [n |-> 0]
    /\ conn_call = None

LabInit ==
    /\ lab_key \in LabKeys
    /\ lab_iv \in LabIvs
    /\ lab_plain \in SeqsUpTo(LabBytes, MaxPlain)
    /\ lab_enc = MinecraftCipher_new(lab_key, lab_iv).cipher
    /\ lab_dec = MinecraftCipher_new(lab_key, lab_iv).cipher
    /\ lab_ct = <<>>
    /\ lab_pt = <<>>
    /\ lab_calls = [enc |-> 0, dec |-> 0, empty |-> FALSE]
    /\ BufIdle

\* enc.encrypt(&mut plain[pos..pos+n])
EncryptSlice(n) ==
    /\ Len(lab_ct) + n <= Len(lab_plain)
    /\ lab_calls.enc < MaxSlices
    /\ lab_calls' = [lab_calls EXCEPT !.enc = @ + 1, !.empty = @ \/ n = 0]
    /\ LET r == encrypt(lab_enc, SubSeq(lab_plain, Len(lab_ct) + 1, Len(lab_ct) + n))
       IN  /\ lab_enc' = r.cipher
           /\ lab_ct' = lab_ct \o r.data
    /\ UNCHANGED <<lab_key, lab_iv, lab_plain, lab_dec, lab_pt, buf_vec, buf_call, conn_call,
                   sys_vars>>

\* dec.decrypt(&mut ct[pos..pos+n])
DecryptSlice(n) ==
    /\ Len(lab_pt) + n <= Len(lab_ct)
    /\ lab_calls.dec < MaxSlices
    /\ lab_calls' = [lab_calls EXCEPT !.dec = @ + 1, !.empty = @ \/ n = 0]
    /\ LET r == decrypt(lab_dec, SubSeq(lab_ct, Len(lab_pt) + 1, Len(lab_pt) + n))
       IN  /\ lab_dec' = r.cipher
           /\ lab_pt' = lab_pt \o r.data
    /\ UNCHANGED <<lab_key, lab_iv, lab_plain, lab_enc, lab_ct, buf_vec, buf_call, conn_call,
                   sys_vars>>

NextCipher ==
    \/ \E n \in 0..MaxPlain + 1 : EncryptSlice(n)
    \/ \E n \in 0..MaxPlain + 1 : DecryptSlice(n)

\* the cipher of SpecCipher while the bridges run
LabIdle ==
    /\ lab_key = Key1
    /\ lab_iv = Iv1
    /\ lab_plain = <<>>
    /\ lab_enc = MinecraftCipher_new(Key1, Iv1).cipher
    /\ lab_dec = MinecraftCipher_new(Key1, Iv1).cipher
    /\ lab_ct = <<>>
    /\ lab_pt = <<>>
    /\ lab_calls = [enc |-> 0, dec |-> 0, empty |-> FALSE]
    /\ BufIdle

vars == <<sys_vars, lab_vars>>

InitCipher == LabInit /\ SysInit /\ reader.direction = "ServerBound"

SpecCipher == InitCipher /\ [][NextCipher]_vars

Init == SysInit /\ LabIdle /\ reader.direction = writer.direction

Next ==
    \/ \E p \in ModelPackets : WriteRawPacket(p)
    \/ \E p \in ModelPackets : WritePacket(p)
    \/ \E st \in ModelStates : W_set_state(st)
    \/ \E t \in ModelThresholds : W_set_compression_threshold(t)
    \/ \E k \in ModelKeyIvs : W_enable_encryption(k[1], k[2])
    \/ Close
    \/ InStepReadVarIntByte
    \/ ReadBody
    \/ \E st \in ModelStates : R_set_state(st)
    \/ InStepSetThreshold
    \/ \E k \in ModelKeyIvs : InStepEnableEncryption(k[1], k[2])

Spec == Init /\ [][Next]_vars

InitRaw == SysInit /\ LabIdle

NextRaw ==
    \/ \E b \in RawBytes : PeerSend(b)
    \/ Close
    \/ ReadVarIntByte
    \/ ReadBody
    \/ \E st \in ModelStates : R_set_state(st)
    \/ \E t \in ModelThresholds : R_set_compression_threshold(t)
    \/ \E k \in ModelKeyIvs : R_enable_encryption(k[1], k[2])

SpecRaw == InitRaw /\ [][NextRaw]_vars

(***************************************************************************)
(* SpecBridge: the hosts of the two halves make the calls of the Bridge    *)
(* trait, with key material of any length, and nothing is sent.            *)
(***************************************************************************)
InitBridge == SysInit /\ LabIdle

NextBridge ==
    \/ \E st \in ModelStates : W_set_state(st)
    \/ \E t \in ModelThresholds : W_set_compression_threshold(t)
    \/ \E k \in ModelKeyIvs \cup BadKeyIvs : W_enable_encryption(k[1], k[2])
    \/ \E st \in ModelStates : R_set_state(st)
    \/ \E t \in ModelThresholds : R_set_compression_threshold(t)
    \/ \E k \in ModelKeyIvs \cup BadKeyIvs : R_enable_encryption(k[1], k[2])
    \/ \E k \in ModelKeyIvs \cup BadKeyIvs : C_enable_encryption(k[1], k[2])

SpecBridge == InitBridge /\ [][NextBridge]_vars

(***************************************************************************)
(* SpecBuf: a Vec<u8> of any contents and capacity, and get_sized_buf      *)
(* called on it with one size after the other.                             *)
(***************************************************************************)
VecBytes == {0, 7}

InitBuf ==
    /\ SysInit /\ reader.direction = "ServerBound"
    /\ lab_key = Key1 /\ lab_iv = Iv1 /\ lab_plain = <<>>
    /\ lab_enc = MinecraftCipher_new(Key1, Iv1).cipher
    /\ lab_dec = MinecraftCipher_new(Key1, Iv1).cipher
    /\ lab_ct = <<>> /\ lab_pt = <<>>
    /\ lab_calls = [enc |-> 0, dec |-> 0, empty |-> FALSE]
    /\ \E bytes \in SeqsUpTo(VecBytes, MaxVec) : \E spare \in 0..1 :
           buf_vec = [bytes |-> bytes, cap |-> Len(bytes) + spare]
    /\ buf_call = [n |-> 0]
    /\ conn_call = None

\* get_sized_buf(&mut vec, needed)
GetSizedBuf(needed) ==
    /\ buf_call.n < MaxSized
    /\ LET out == get_sized_buf_bytes(buf_vec, needed)
       IN  /\ buf_vec' = out.vec
           /\ buf_call' = [n |-> buf_call.n + 1, old |-> buf_vec, needed |-> needed,
                           slice |-> out.slice]
    /\ UNCHANGED <<lab_key, lab_iv, lab_plain, lab_enc, lab_ct, lab_dec, lab_pt, lab_calls,
                   conn_call, sys_vars>>

NextBuf == \E needed \in 0..MaxNeeded : GetSizedBuf(needed)

SpecBuf == InitBuf /\ [][NextBuf]_vars

(***************************************************************************)
(* Properties.                                                             *)
(***************************************************************************)
\* the writer's last call was write_packet or write_raw_packet
LastCallWrote == w_arg # None /\ Unwrap(w_arg).kind \in {"raw", "typed"}

\* the id of the packet agreed with the writer's direction and state
Matching(call) ==
    /\ call.packet.id.direction = writer.direction
    /\ call.packet.id.state = call.state

\* the reader's last read_packet took a whole frame
FrameWasRead == r_expect # None /\ r_res \in {"packet"} \cup ReadErrors

\* the packet the reader has to return for what was written
Expected == [id |-> Unwrap(r_expect).written.id, data |-> Unwrap(r_expect).written.data]

\* the reader was in the state of the packet when it read the frame
ReadInState == Unwrap(r_expect).state = Unwrap(r_expect).written.id.state

\* id || body of a packet
IdAndBody(packet) == VarInt_serialize(packet.id.id) \o packet.data

\* one call of crypt over data on a cipher freshly made from keyiv
OneShot(keyiv, data, dec) == crypt(MinecraftCipher_new(keyiv[1], keyiv[2]).cipher, data, dec)

\* C1: plain frame round trip.  With no threshold and no encryption, every
\* packet handed to write_packet or write_raw_packet on a writer whose
\* direction and state match its id is written; the reader, in the same
\* state, returns it with the same id and body, in order; and the reader
\* returns None, at the end of the stream, only with every packet returned.
C1_PlainRoundTrip ==
    /\ (/\ LastCallWrote
        /\ Unwrap(w_arg).threshold = None /\ Unwrap(w_arg).keyiv = None
        /\ Matching(Unwrap(w_arg)))
       => w_res = "ok"
    /\ (/\ FrameWasRead
        /\ Unwrap(r_expect).written.threshold = None
        /\ Unwrap(r_expect).written.keyiv = None
        /\ ReadInState)
       => r_res = "packet" /\ r_pkt = Some(Expected)
    /\ r_res = "eof" => inflight = <<>> /\ wire = <<>>

\* C2: encrypted round trip.  With the same key and iv enabled on both
\* halves at the same packet boundary and any threshold, the same on both,
\* every write of a matching packet completes, the reader returns the same
\* ids and bodies in order, and whenever the reader has read all that was
\* written the two iv registers are equal.
C2_EncryptedRoundTrip ==
    /\ (/\ LastCallWrote
        /\ Unwrap(w_arg).keyiv # None
        /\ Matching(Unwrap(w_arg)))
       => w_res = "ok"
    /\ (/\ FrameWasRead
        /\ Unwrap(r_expect).written.keyiv # None
        /\ ReadInState)
       => r_res = "packet" /\ r_pkt = Some(Expected)
    /\ (/\ w_keyiv # None /\ r_keyiv = w_keyiv
        /\ inflight = <<>> /\ wire = <<>> /\ ReaderIdle /\ ReaderAlive
        /\ Len(r_got) = Len(w_sent))
       => Unwrap(reader.encryption).iv = Unwrap(writer.encryption).iv

\* C3: compression threshold decision.  With threshold T on the writer and
\* a matching packet of s = |id| + |body| bytes, a frame is emitted; its
\* data length is 0 exactly when s < T, and then id || body follows as it
\* is; for s >= T the data length is s and what follows inflates to exactly
\* id || body.
C3_ThresholdDecision ==
    (/\ LastCallWrote
     /\ Unwrap(w_arg).threshold # None
     /\ Matching(Unwrap(w_arg)))
    => /\ w_res = "ok"
       /\ LET T    == Unwrap(Unwrap(w_arg).threshold)
              data == IdAndBody(Unwrap(w_arg).packet)
              dl   == VarInt_deserialize(VarInt_deserialize(w_frame).rest)
          IN  /\ dl.value = 0 <=> Len(data) < T
              /\ Len(data) < T => dl.rest = data
              /\ Len(data) >= T =>
                     /\ dl.value = Len(data)
                     /\ Inflate(dl.rest, Len(data)) = [status |-> "StreamEnd", out |-> data]

\* C4: direction / state guard.  A call of write_packet or write_raw_packet
\* with a packet whose id direction differs from the writer's direction, or
\* whose id state differs from the writer's state, returns an error and
\* adds no byte to the transport.
C4_Guard ==
    [][(/\ w_calls' = w_calls + 1
        /\ \/ Unwrap(w_arg').packet.id.direction # writer.direction
           \/ Unwrap(w_arg').packet.id.state # writer.state)
       => /\ w_res' \in {"err_direction", "err_state"}
          /\ wire' = wire]_vars

\* a packet of another state was refused after a packet had been written,
\* and a packet without fields of another direction was refused by a
\* writer that had written nothing
C4_Witness ==
    /\ LastCallWrote
    /\ \/ w_res = "err_state" /\ w_calls = 2 /\ wire # <<>>
       \/ /\ w_res = "err_direction" /\ Unwrap(w_arg).kind = "typed"
          /\ writer.raw_buf = None

\* what the writer sent, and its register, are what the one call left
WriterThrough(one) ==
    /\ w_sent = one.data
    /\ Unwrap(writer.encryption).iv = one.cipher.iv

\* the reader's register, and the bytes of a frame length it holds, are what
\* the one call left
ReaderThrough(one) ==
    /\ Unwrap(reader.encryption).iv = one.cipher.iv
    /\ r_vbuf = SubSeq(one.data, Len(r_got) - Len(r_vbuf) + 1, Len(r_got))

\* C5: no plaintext interleaving.  From enable_encryption on, the bytes the
\* writer hands to write_all are the slices it emitted, length prefixes
\* included, put through the cipher once and in order: they equal one
\* encryption of all of them, and the writer's register is the one that
\* leaves.  The reader's register is the one that one decryption of the
\* bytes the stream handed over leaves; and the bytes of a frame length it
\* holds, whose continuation bits it has looked at, are decrypted ones.
C5_NoPlaintextInterleaving ==
    /\ w_keyiv # None => WriterThrough(OneShot(Unwrap(w_keyiv), w_clear, FALSE))
    /\ r_keyiv # None => ReaderThrough(OneShot(Unwrap(r_keyiv), r_got, TRUE))

\* two frames went through the writer's cipher and, byte by byte, through the
\* reader's, which holds the first byte of a two-byte frame length
C5_Witness ==
    /\ w_keyiv # None /\ r_keyiv = w_keyiv
    /\ w_calls = 2 /\ Len(w_sent) > Len(w_frame) /\ w_frame # <<>>
    /\ Len(r_vbuf) = 1
    /\ Len(r_got) > 1

\* the cipher of SpecCipher as constructed
LabFresh == MinecraftCipher_new(lab_key, lab_iv).cipher

\* C6: CFB8 round trip.  Whenever the decrypting cipher has caught up with the
\* encrypting one, it has recovered exactly the plaintext encrypted so far
\* and the two iv registers are equal; in particular once all of the
\* plaintext went through both.
C6_RoundTrip ==
    Len(lab_pt) = Len(lab_ct) =>
        /\ lab_pt = Take(lab_plain, Len(lab_ct))
        /\ lab_dec.iv = lab_enc.iv

C6_Witness ==
    /\ Len(lab_plain) = MaxPlain
    /\ Len(lab_pt) = Len(lab_plain)
    /\ lab_ct # lab_plain
    /\ lab_enc.iv # lab_iv

\* C7: slicing invariance.  However the buffer was cut into slices, the
\* output so far and the iv register equal those of one call over the same
\* bytes on a fresh cipher, for encrypt and for decrypt.
C7_Slicing ==
    /\ lab_ct = encrypt(LabFresh, Take(lab_plain, Len(lab_ct))).data
    /\ lab_enc.iv = encrypt(LabFresh, Take(lab_plain, Len(lab_ct))).cipher.iv
    /\ lab_pt = decrypt(LabFresh, Take(lab_ct, Len(lab_pt))).data
    /\ lab_dec.iv = decrypt(LabFresh, Take(lab_ct, Len(lab_pt))).cipher.iv

\* the whole buffer went through both ciphers, cut into three slices on
\* each side, one of them empty
C7_Witness ==
    /\ Len(lab_plain) = MaxPlain
    /\ Len(lab_pt) = Len(lab_plain)
    /\ lab_calls.enc = 3
    /\ lab_calls.dec = 3
    /\ lab_calls.empty
    /\ lab_enc.iv # lab_iv

EnableResults == {"enabled", "err_double_enable", "err_key"}

\* a call of enable_encryption on the writer has returned in this step
WriterEnableStep ==
    /\ w_calls' = w_calls
    /\ w_arg' # None /\ Unwrap(w_arg').kind = "enable"
    /\ w_arg' # w_arg \/ w_res' # w_res \/ writer'.encryption # writer.encryption

\* a call of enable_encryption on the reader has returned in this step
ReaderEnableStep ==
    /\ wire' = wire /\ r_pc' = r_pc
    /\ r_res' \in EnableResults
    /\ r_res' # r_res \/ reader'.encryption # reader.encryption

\* C8: double enable.  enable_encryption on a writer or a reader that has a
\* cipher returns an error and leaves the half, its cipher with key and iv
\* register included, as it was, whatever key and iv the call passes and
\* whatever the cipher has gone through.
C8_DoubleEnable ==
    [][/\ (WriterEnableStep /\ IsSome(writer.encryption))
          => w_res' = "err_double_enable" /\ writer' = writer
       /\ (ReaderEnableStep /\ IsSome(reader.encryption))
          => r_res' = "err_double_enable" /\ reader' = reader]_vars

\* the writer, its cipher moved on by a frame, and the reader, its cipher
\* moved on by that frame, have both refused a second enable_encryption
\* that came with another key
C8_Witness ==
    /\ w_res = "err_double_enable" /\ r_res = "err_double_enable"
    /\ Unwrap(w_arg).keyiv # Unwrap(w_keyiv)
    /\ w_sent # <<>> /\ Len(r_got) = Len(w_sent)
    /\ Unwrap(writer.encryption).iv # Iv1
    /\ Unwrap(writer.encryption).key = Unwrap(w_keyiv)[1]
    /\ Unwrap(reader.encryption).iv = Unwrap(writer.encryption).iv

\* C9: end of stream at a frame boundary and inside a body.  A read_packet
\* that meets the end of the stream on the first byte of a frame returns
\* None and leaves the reader, its cipher included, as it was; a
\* read_packet that has the frame length and meets the end of the stream
\* before the whole body returns an error.
C9_Eof ==
    [][/\ (r_eof' # r_eof /\ r_eof' = Some(0))
          => r_res' = "eof" /\ reader' = reader
       /\ (r_pc = "body" /\ r_pc' = "varint" /\ Len(wire) < r_need)
          => r_res' = "err_eof"]_vars

\* a reader whose cipher has taken bytes has met the end of the stream on
\* the first byte of a frame
C9_Witness ==
    /\ r_eof = Some(0) /\ r_res = "eof"
    /\ IsSome(reader.encryption) /\ r_got # <<>>
    /\ closed /\ wire = <<>>

\* C10: end of stream inside the frame length.  A read_packet that has
\* taken at least one byte of the frame length, all with the continuation
\* bit set, and then meets the end of the stream returns UnexpectedEof, not
\* None.
C10_EofInsideLength ==
    (/\ r_eof # None /\ Unwrap(r_eof) > 0
     /\ r_res \in {"eof"} \cup ReadErrors)
    => r_res = "err_eof"


\* the byte b of the stream as read_one_varint looks at it
Seen(b) ==
    IF IsSome(reader.encryption) THEN decrypt(Unwrap(reader.encryption), <<b>>).data[1]
    ELSE b

\* read_one_varint holds four bytes of a frame length and takes a fifth
FifthByteStep ==
    /\ r_pc = "varint" /\ Len(r_vbuf) = 4
    /\ wire # <<>> /\ wire' = Tail(wire)

\* C11: VarInt overflow.  With four bytes of a frame length taken, all with
\* the continuation bit set, and a fifth and a sixth such byte on the wire,
\* read_packet returns the error for a VarInt that is too long; it has not
\* sized the raw buffer, does not wait for a body and takes no byte beyond
\* the fifth.
C11_Overflow ==
    [][(/\ FifthByteStep
        /\ Len(wire) >= 2
        /\ Seen(wire[1]) >= 128)
       => /\ r_res' = "err_varint"
          /\ reader'.raw_buf = reader.raw_buf
          /\ r_pc' = "varint" /\ r_need' = r_need
          /\ wire' = Tail(wire)]_vars

\* six bytes with the continuation bit set were sent to a reader that had
\* never sized its raw buffer; it returned the error with the sixth unread
C11_Witness ==
    /\ r_res = "err_varint"
    /\ raw_sent = 6 /\ wire = <<128>>
    /\ reader.raw_buf = None /\ reader.encryption = None

\* read_packet has returned in this step
ReadReturnStep == r_pc = "body" /\ r_pc' = "varint"

\* a step of read_packet
ReadStep == wire' # wire \/ r_pc' # r_pc \/ r_eof' # r_eof

\* C12: reader state tagging.  A packet returned by read_packet carries the
\* state the reader holds, which only set_state changes and which is
\* Handshaking at first, and the direction given at construction, which
\* nothing changes; a step that changes the state leaves the buffers, the
\* threshold, the cipher and the position in the transport as they were.
C12_StateTag ==
    [][/\ (ReadReturnStep /\ r_res' = "packet")
          => /\ Unwrap(r_pkt').id.state = reader.state
             /\ Unwrap(r_pkt').id.direction = reader.direction
       /\ ReadStep => reader'.state = reader.state
       /\ reader'.direction = reader.direction
       /\ reader'.state # reader.state
          => /\ reader' = [reader EXCEPT !.state = reader'.state]
             /\ wire' = wire
             /\ <<r_pc, r_vbuf, r_need, r_res, r_pkt>>' = <<r_pc, r_vbuf, r_need, r_res, r_pkt>>]_vars

\* a ClientBound reader that was set to Play has returned a packet tagged
\* Play and ClientBound
C12_Witness ==
    /\ r_res = "packet"
    /\ Unwrap(r_pkt).id.state = "Play"
    /\ Unwrap(r_pkt).id.direction = "ClientBound"
    /\ reader.raw_buf # None

\* the buffer b is still there after the step, as b2, and no shorter
Kept(b, b2) ==
    IsSome(b) => /\ IsSome(b2)
                 /\ Unwrap(b2).len >= Unwrap(b).len
                 /\ Unwrap(b2).cap >= Unwrap(b).cap

\* C13: buffer non-shrink.  No step takes away or shortens the raw or the
\* decompress buffer of the reader, or the raw or the compress buffer of
\* the writer; a frame of N bytes read leaves the reader's raw buffer, and a
\* body of N bytes written leaves the writer's, at least N bytes long.
C13_NonShrink ==
    [][/\ Kept(reader.raw_buf, reader'.raw_buf)
       /\ Kept(reader.decompress_buf, reader'.decompress_buf)
       /\ Kept(writer.raw_buf, writer'.raw_buf)
       /\ Kept(writer.compress_buf, writer'.compress_buf)
       /\ (ReadReturnStep /\ r_res' = "packet")
          => Unwrap(reader'.raw_buf).len >= r_need
       /\ (w_calls' = w_calls + 1 /\ w_res' = "ok")
          => Unwrap(writer'.raw_buf).len >= Len(Unwrap(w_arg').packet.data)]_vars

\* a long packet and then a short one, both compressed, were written and
\* read: the compress and the decompress buffer still have the length the
\* long one gave them
C13_Witness ==
    /\ w_calls = 2 /\ w_res = "ok"
    /\ Unwrap(w_arg).packet.data = <<1, 2, 3>>
    /\ Unwrap(w_arg).threshold # None
    /\ Unwrap(writer.compress_buf).len > LongBody
    /\ r_res = "packet" /\ Unwrap(r_pkt).data = <<1, 2, 3>>
    /\ inflight = <<>>
    /\ Unwrap(reader.decompress_buf).len > LongBody
    /\ Unwrap(reader.raw_buf).len >= RAW_BUF_DEFAULT_CAP

\* key material that is not 16 bytes of key and 16 bytes of iv
BadMaterial(keyiv) == Len(keyiv[1]) # BYTES_SIZE \/ Len(keyiv[2]) # BYTES_SIZE

\* the half has the cipher MinecraftCipher::new makes of 16-byte material
Installed(enc) ==
    /\ IsSome(enc)
    /\ Len(Unwrap(enc).key) = BYTES_SIZE /\ Len(Unwrap(enc).iv) = BYTES_SIZE

\* C14: invalid key material.  enable_encryption on a half without a cipher
\* returns an error and leaves the half as it was when the key or the iv is
\* not 16 bytes long; with a key and an iv of 16 bytes it succeeds, also
\* right after such an error.
C14_InvalidKey ==
    [][/\ (WriterEnableStep /\ writer.encryption = None)
          => IF BadMaterial(Unwrap(w_arg').keyiv)
             THEN w_res' = "err_key" /\ writer' = writer
             ELSE /\ w_res' = "enabled"
                  /\ Installed(writer'.encryption)
                  /\ Unwrap(writer'.encryption).key = Unwrap(w_arg').keyiv[1]
       /\ (ReaderEnableStep /\ reader.encryption = None)
          => IF r_res' = "err_key"
             THEN reader' = reader
             ELSE r_res' = "enabled" /\ Installed(reader'.encryption)]_vars

\* the writer has refused an iv of 17 bytes and the reader some material,
\* and both are without a cipher
C14_Witness ==
    /\ w_res = "err_key" /\ writer.encryption = None
    /\ Len(Unwrap(w_arg).keyiv[2]) = BYTES_SIZE + 1
    /\ r_res = "err_key" /\ reader.encryption = None

\* the writer's last call took the branch of write_packet_in_buf that
\* compresses
Compressing ==
    /\ LastCallWrote
    /\ Matching(Unwrap(w_arg))
    /\ Unwrap(w_arg).threshold # None
    /\ Len(IdAndBody(Unwrap(w_arg).packet)) >= Unwrap(Unwrap(w_arg).threshold)

\* C15: the deflate loop of the writer terminates.  A write that has come
\* to the loop around Compress::compress leaves it: when the output region
\* of the compress buffer is used up the buffer grows, and the call returns
\* with the packet written.
C15_DeflateTerminates == Compressing /\ w_res # "panic" => w_res = "ok"

\* the slice w_frame is VarInt(len) || VarInt(data_len) || payload, and the
\* payload inflates to data
CompressedFrameOf(data) ==
    LET len == VarInt_deserialize(w_frame)
        dl  == VarInt_deserialize(len.rest)
    IN  /\ len.ok /\ len.value = Len(len.rest)
        /\ dl.ok /\ dl.value = Len(data)
        /\ Inflate(dl.rest, Len(data)) = [status |-> "StreamEnd", out |-> data]

\* C16: compress-buffer slack.  Whenever the writer takes the branch that
\* compresses, also with a compress buffer never allocated before and fewer
\* than 15 bytes to compress, the compress buffer holds the zone [10..15]
\* and the start of the output region at 15, no index is out of range, and
\* a packet that is emitted is VarInt(len) || VarInt(data_len) || payload.
C16_CompressSlack ==
    Compressing =>
        /\ w_res # "panic"
        /\ Unwrap(writer.compress_buf).len >= EXTRA_FREE_SPACE
        /\ w_res = "ok" => CompressedFrameOf(IdAndBody(Unwrap(w_arg).packet))

\* C17: raw-buffer slack.  After write_packet has staged a packet whose id
\* matches the writer, whatever the writer's state and also with a body of
\* zero bytes on a writer that never sized its raw buffer, the raw buffer is
\* at least 15 bytes long; without a threshold the packet is emitted as
\* VarInt(id_len + body_len) || VarInt(id) || body.
C17_RawSlack ==
    (/\ LastCallWrote
     /\ Unwrap(w_arg).kind = "typed"
     /\ Matching(Unwrap(w_arg)))
    => /\ IsSome(writer.raw_buf)
       /\ Unwrap(writer.raw_buf).len >= EXTRA_FREE_SPACE
       /\ Unwrap(w_arg).threshold = None
          => /\ w_res = "ok"
             /\ w_frame = VarInt_serialize(Len(IdAndBody(Unwrap(w_arg).packet)))
                          \o IdAndBody(Unwrap(w_arg).packet)

\* the frame region of a packet written under threshold th: id || body
\* as it is, after a data length of 0, or deflated after its length
IsRegionOf(region, data, th) ==
    IF th = None THEN region = data
    ELSE IF Len(data) < Unwrap(th) THEN region = <<0>> \o data
    ELSE /\ Take(region, Len(VarInt_serialize(Len(data)))) = VarInt_serialize(Len(data))
         /\ Inflate(Drop(region, Len(VarInt_serialize(Len(data)))), Len(data))
                = [status |-> "StreamEnd", out |-> data]

\* the slice is VarInt(n) and then the n bytes of the frame region of data
IsFrameOf(slice, len, data, th) ==
    /\ len.ok
    /\ len.value = Len(len.rest)
    /\ slice = VarInt_serialize(Len(len.rest)) \o len.rest
    /\ IsRegionOf(len.rest, data, th)

\* C18: the length prefix is exact and contiguous.  In each of the three
\* branches the slice handed to the sink is, before encryption, VarInt(n)
\* followed at once by the n bytes of the frame region: no byte lies between
\* them, and the data length, the id and the body are what they were.
C18_LengthPrefix ==
    (LastCallWrote /\ w_res = "ok")
    => IsFrameOf(w_frame, VarInt_deserialize(w_frame),
                 IdAndBody(Unwrap(w_arg).packet), Unwrap(w_arg).threshold)

\* a frame region of more than 127 bytes went out behind a length of two
\* bytes, after a packet written with a threshold
C18_Witness ==
    /\ LastCallWrote /\ w_res = "ok" /\ w_calls = 2
    /\ Unwrap(w_arg).threshold = None
    /\ Len(w_frame) = LongBody + 3
    /\ w_frame[1] >= 128
    /\ writer.compress_buf # None

\* read_packet goes on to the frame body with the length `decoded`, as far
\* as `decoded as usize` lets it
ProceedsWith(decoded) ==
    IF decoded < 0 THEN r_res' = "panic"
    ELSE r_pc' = "body" /\ r_need' = decoded /\ r_res' = r_res

\* C19: fifth length byte with continuation bit, as the specification has
\* it.  A fifth byte of the frame length with its continuation bit set is
\* taken as the last byte of the VarInt, and read_packet goes on with the
\* decoded length instead of reporting an error.
C19_FifthByteAccepted ==
    [][(FifthByteStep /\ Seen(wire[1]) >= 128)
       => r_res' # "err_varint" /\ r_pc' = "body"]_vars

\* C19, amended: a fifth byte of the frame length ends the VarInt only with
\* its continuation bit clear, and read_packet then goes on with the decoded
\* length; with the bit set read_packet returns the error for a VarInt that
\* is too long, decodes no length and does not wait for a body.
C19_FifthByte ==
    [][FifthByteStep
       => IF Seen(wire[1]) >= 128
          THEN r_res' = "err_varint" /\ r_pc' = "varint" /\ r_need' = r_need
          ELSE ProceedsWith(VarIntValue(Append(r_vbuf, Seen(wire[1]))))]_vars

\* the stream had five bytes, the fifth with its continuation bit set, and
\* read_packet has returned the error with all five taken
C19_Witness ==
    /\ r_res = "err_varint"
    /\ raw_sent = 5 /\ wire = <<>> /\ closed
    /\ r_pc = "varint" /\ r_need = 0

\* C20: the contract of get_sized_buf.  The slice returned has exactly the
\* length asked for and is the front of the Vec; a Vec that was shorter has
\* grown to at least that length, its old bytes as they were and every byte
\* from the old length to the new one zero; a Vec that was long enough is as
\* it was, bytes, length and capacity.
C20_GetSizedBuf ==
    buf_call.n > 0 =>
        /\ Len(buf_call.slice) = buf_call.needed
        /\ buf_call.slice = Take(buf_vec.bytes, buf_call.needed)
        /\ IF Len(buf_call.old.bytes) < buf_call.needed
           THEN /\ Len(buf_vec.bytes) >= buf_call.needed
                /\ Len(buf_vec.bytes) = buf_vec.cap
                /\ Take(buf_vec.bytes, Len(buf_call.old.bytes)) = buf_call.old.bytes
                /\ \A i \in Len(buf_call.old.bytes) + 1..Len(buf_vec.bytes) :
                       buf_vec.bytes[i] = 0
           ELSE buf_vec = buf_call.old

\* a Vec with bytes other than zero has grown in a second call, beyond the
\* size asked for
C20_Witness ==
    /\ buf_call.n = 2
    /\ Len(buf_call.old.bytes) > 0
    /\ \E i \in 1..Len(buf_call.old.bytes) : buf_call.old.bytes[i] # 0
    /\ Len(buf_call.old.bytes) < buf_call.needed
    /\ Len(buf_vec.bytes) > buf_call.needed

\* a call of TcpConnection::enable_encryption has returned in this step
ConnEnableStep == conn_call' # conn_call

\* C21: enable_encryption on the connection is all or nothing.  When the
\* call returns Ok both halves have the cipher made from its key and iv;
\* when it returns an error neither half's cipher is other than before the
\* call, whichever half had a cipher already.
C21_AllOrNothing ==
    [][ConnEnableStep =>
          IF Unwrap(conn_call').res = "enabled"
          THEN /\ reader.encryption = None /\ writer.encryption = None
               /\ reader'.encryption = Some(MinecraftCipher_new(Unwrap(conn_call').keyiv[1],
                                                                Unwrap(conn_call').keyiv[2]).cipher)
               /\ writer'.encryption = reader'.encryption
          ELSE /\ reader'.encryption = reader.encryption
               /\ writer'.encryption = writer.encryption]_vars

\* read_one_varint takes the last byte of a frame length in this step
LengthDecodedStep ==
    /\ r_pc = "varint" /\ ReaderAlive
    /\ wire # <<>> /\ wire' = Tail(wire)
    /\ Seen(wire[1]) < 128

\* read_packet has read a frame whose data, with a threshold set, starts
\* with a data length below zero
NegativeDataLength ==
    /\ ReadReturnStep /\ Len(wire) >= r_need
    /\ IsSome(reader.compression_threshold)
    /\ LET dl == VarInt_deserialize(decrypt_read(reader.encryption, Take(wire, r_need)).bytes)
       IN  dl.ok /\ dl.value < 0

\* C22: negative lengths from the wire are rejected.  When the frame length
\* decodes to a number below zero read_packet returns an error, one of its
\* Err results and not a panic, and the raw buffer is not sized; the same
\* for a data length below zero and the decompress buffer.
C22_NegativeRejected ==
    [][/\ (LengthDecodedStep /\ VarIntValue(Append(r_vbuf, Seen(wire[1]))) < 0)
          => /\ r_res' \in ReadErrors \ {"panic"}
             /\ reader'.raw_buf = reader.raw_buf
       /\ NegativeDataLength
          => /\ r_res' \in ReadErrors \ {"panic"}
             /\ reader'.decompress_buf = reader.decompress_buf]_vars

====
